---- MODULE Spec2Model ----
(***************************************************************************)
(* State-machine model of the Telegram -> Yarabot relay in src/botcode.py. *)
(*                                                                         *)
(* Text is modelled as a sequence of atoms: a character of backend text,   *)
(* or one fixed phrase / one formatted value of a message the bot itself   *)
(* composes.  A handler is cut at its suspension points (the awaits on     *)
(* the network and on the front-end); what runs between two awaits is one  *)
(* action.  Handlers of different chats interleave at those points, one    *)
(* handler per chat at a time.                                             *)
(*                                                                         *)
(* The awaited reply_text and the file operations of log_chat are taken    *)
(* to succeed; the failures modelled are those of the download and of the  *)
(* request to the backend.  Only the value of the key a chunk is           *)
(* dispatched on is kept, the code reads no other.                         *)
(***************************************************************************)
EXTENDS Integers, Sequences, FiniteSets, TLC

\* ---------------------------------------------------------------- bounds
\* inputs of the environment over one run: updates, chunks and failures
MaxEvents == 4
\* the same over one run in which the handlers of different chats overlap
MaxOverlapEvents == 3

\* ---------------------------------------------------------------- inputs
Chats == {1, 2}

\* the value Python's dict.get returns for a missing key (and JSON null)
None == <<"<None>">>
\* a chat_id that is not a key of chat_sessions
Absent == <<"<absent>">>
\* session_id values the backend may send; <<>> is the empty string, a falsy one
Tokens == {<<"s1">>, <<"s2">>, <<>>}

UserTexts == {<<"h">>}
FileIds == {<<"f1">>}
OggSizes == {0, 1}
\* str(e) of the exceptions the libraries raise
RawExc == {"ConnectError"}
TypeErrorText == "TypeError"

Keys == {"session_id", "data", "message_id", "error"}

\* a JSON object of the stream: its keys, and the value of the key the
\* dispatch reads (the values of the other keys are never read)
Obj(keys, val, isstr) == [kind |-> "obj", keys |-> keys, val |-> val, isstr |-> isstr]

BlankChunk == [kind |-> "blank", keys |-> {}, val |-> <<>>, isstr |-> TRUE]
NotJson == [kind |-> "notjson", keys |-> {}, val |-> <<>>, isstr |-> TRUE]
NonObject == [kind |-> "nonobj", keys |-> {}, val |-> <<>>, isstr |-> TRUE]

SessionChunks ==
    {Obj({"session_id"}, t, TRUE) : t \in Tokens}
        \cup {Obj({"session_id", "message_id"}, <<"s2">>, TRUE),
              Obj({"session_id", "data"}, <<"s1">>, TRUE),
              Obj({"session_id", "error"}, <<"s1">>, TRUE)}

DataChunks ==
    {Obj({"data"}, v, TRUE) : v \in {<<>>, <<"a">>, <<"*", "b">>, <<"*">>}}
        \cup {Obj({"data"}, <<"7">>, FALSE),
              Obj({"data", "error"}, <<"a">>, TRUE),
              Obj({"data", "message_id"}, <<"a">>, TRUE)}

TerminalChunks ==
    {Obj({"message_id"}, <<"m1">>, TRUE),
     Obj({"error"}, <<"e1">>, TRUE),
     Obj({"message_id", "error"}, <<"m1">>, TRUE),
     Obj({}, <<>>, TRUE)}

Chunks == {BlankChunk, NotJson, NonObject} \cup SessionChunks \cup DataChunks \cup TerminalChunks

Statuses == {"200", "201", "400", "401", "404", "413", "422", "500"}
Bodies == {<<>>, <<"x">>}

\* ---------------------------------------------------------------- fixed messages
NoVoiceMsg == <<"Error: Could not process the voice message.">>
EmptyAudioMsg == <<"Error: Downloaded audio file is empty.">>
NoResponseMsg == <<"No response received from the API.">>
UnexpectedFormatMsg == <<"Received unexpected response format from API.">>
ParseErrorMsg == <<"Error: Could not parse API response.">>
TimeoutMsg == <<"Error: API response timed out. Please try again later.">>

\* an API error message that drops the value of the error key
ApiErrorNoDetail(val) == <<"API Error: ">>
\* f"API Error: {chunk_data['error']}"
ApiErrorMsg(val) == <<"API Error: ">> \o val
ChunkErrorMsg(e) == <<"Error processing API response: ", e>>
CommErrorMsg(e) == <<"Error communicating with API: ", e>>
VoiceErrorMsg(e) == <<"Error processing voice message: ", e>>
VoiceLogContent(file_id) == <<"Voice message with file_id: ">> \o file_id

\* a mapping that gives every status code the generic text with the body
HttpErrorGeneric(status_code, body) ==
    LET error_body == IF body # <<>> THEN body ELSE <<"No error body received">>
    IN  <<"Error: ", status_code, " - ">> \o error_body

\* lines 291-305
HttpErrorMsg(status_code, body) ==
    LET error_body == IF body # <<>> THEN body ELSE <<"No error body received">>
        error_message == <<"Error: ", status_code>>
    IN  CASE status_code = "400" -> error_message \o <<" - Bad Request: ">> \o error_body
          [] status_code = "401" -> error_message \o <<" - Unauthorized: Invalid API key.">>
          [] status_code = "404" -> error_message \o <<" - Not Found: Agent ID not found.">>
          [] status_code = "413" -> error_message \o <<" - Payload Too Large.">>
          [] status_code = "422" -> error_message \o <<" - Unprocessable Entity: Invalid data format.">>
          [] OTHER -> error_message \o <<" - ">> \o error_body

\* ---------------------------------------------------------------- helpers
\* a cleaning that leaves the text as it is
KeepAsterisks(s) == s

\* str.replace('*', '')
RECURSIVE RemoveAsterisks(_)
RemoveAsterisks(s) ==
    IF s = <<>> THEN <<>>
    ELSE IF Head(s) = "*" THEN RemoveAsterisks(Tail(s))
         ELSE <<Head(s)>> \o RemoveAsterisks(Tail(s))

\* Python truthiness of what chat_sessions.get returns
Truthy(session_id) == session_id \notin {None, <<>>}

\* chat_sessions.get(chat_id)
SessionGet(sessions, chat_id) ==
    IF sessions[chat_id] = Absent THEN None ELSE sessions[chat_id]

\* a store that keeps the first token of a chat (dict.setdefault)
SessionSetDefault(sessions, chat_id, token) ==
    IF sessions[chat_id] = Absent THEN [sessions EXCEPT ![chat_id] = token] ELSE sessions

\* chat_sessions[chat_id] = token
SessionSet(sessions, chat_id, token) == [sessions EXCEPT ![chat_id] = token]

LogEntry(chat_id, message_type, content, direction) ==
    [chat_id |-> chat_id, message_type |-> message_type,
     content |-> content, direction |-> direction]

\* a log_chat that writes back the entries of its own chat only
LogChatOwn(file, chat_id, message_type, content, direction, io) ==
    IF file.torn \/ io = "read_error" THEN file
    ELSE IF io = "write_error" THEN [logs |-> <<>>, torn |-> TRUE]
    ELSE [logs |-> Append(SelectSeq(file.logs, LAMBDA en : en.chat_id = chat_id),
                          LogEntry(chat_id, message_type, content, direction)),
          torn |-> FALSE]

\* log_chat (lines 48-73) on the file `file`: read the whole list, append
\* one entry, write the list back; any exception is caught and the call
\* returns.  io is what the file operations do this time: "ok",
\* "read_error" (open or json.load raises) or "write_error" (json.dump
\* raises after open(CHAT_LOG_FILE, 'w') has truncated the file).  A file
\* with a partial JSON text makes json.load raise.
LogChat(file, chat_id, message_type, content, direction, io) ==
    IF file.torn \/ io = "read_error" THEN file
    ELSE IF io = "write_error" THEN [logs |-> <<>>, torn |-> TRUE]
    ELSE [logs |-> Append(file.logs, LogEntry(chat_id, message_type, content, direction)),
          torn |-> FALSE]

\* the form data of a request: a dict from field names to values
TextData(user_message) == [type |-> "text", text |-> user_message]
VoiceData == [type |-> "voice"]
WithSession(data, session_id) ==
    IF Truthy(session_id) THEN data @@ [session_id |-> session_id] ELSE data

NoData == [type |-> "none"]
NoUpdate == [kind |-> "none", text |-> <<>>, voice |-> None]
\* stream.status_code, the body read for a status other than 200, and the
\* exception the request or the read of the stream raised
NoResponse == [status_code |-> "none", body |-> <<>>, raised |-> "none"]

\* a dispatch that skips what it cannot read instead of ending the loop
DispatchLenient(chunk) ==
    CASE chunk.kind \in {"blank", "notjson", "nonobj"} -> "skip"
      [] OTHER ->
            IF "session_id" \in chunk.keys THEN "session_id"
            ELSE IF "data" \in chunk.keys THEN "data"
            ELSE IF "message_id" \in chunk.keys THEN "message_id"
            ELSE IF "error" \in chunk.keys THEN "error"
            ELSE "skip"

\* a dispatch that looks for the keys that end the stream first
DispatchTerminalFirst(chunk) ==
    CASE chunk.kind = "blank" -> "skip"
      [] chunk.kind = "notjson" -> "decode_error"
      [] chunk.kind = "nonobj" -> "not_dict"
      [] OTHER ->
            IF "message_id" \in chunk.keys THEN "message_id"
            ELSE IF "error" \in chunk.keys THEN "error"
            ELSE IF "session_id" \in chunk.keys THEN "session_id"
            ELSE IF "data" \in chunk.keys THEN "data"
            ELSE "unexpected"

\* the branch of the if/elif chain of lines 215-256 a parsed chunk takes
Dispatch(chunk) ==
    CASE chunk.kind = "blank" -> "skip"
      [] chunk.kind = "notjson" -> "decode_error"
      [] chunk.kind = "nonobj" -> "not_dict"
      [] OTHER ->
            IF "session_id" \in chunk.keys THEN "session_id"
            ELSE IF "data" \in chunk.keys THEN "data"
            ELSE IF "message_id" \in chunk.keys THEN "message_id"
            ELSE IF "error" \in chunk.keys THEN "error"
            ELSE "unexpected"

\* ---------------------------------------------------------------- state
VARIABLES
    chat_sessions,   \* the dict chat_sessions
    chat_logs,       \* the list stored in chat_logs.json
    pc,              \* per chat: where its handler is suspended
    update,          \* per chat: the update its handler was called with
    data,            \* per chat: the form data built for the request
    full_response,   \* per chat: the accumulator of send_to_yarabot
    replies,         \* per chat: texts passed to reply_text for the update
    pending,         \* per chat: log_chat calls that follow the awaited reply
    outcome,         \* per chat: the branch that ended the handling
    chunks,          \* per chat: the chunks the stream loop has taken
    logMark,         \* per chat: length of chat_logs when the update arrived
    nevents,         \* updates, chunks and failures delivered so far
    concurrent_updates,  \* the Application's setting: handlers may overlap
    response,        \* per chat: what the request to the backend came back with
    log_torn,        \* chat_logs.json holds a partial JSON text
    io_faults        \* the file operations of log_chat may raise

vars == <<chat_sessions, chat_logs, pc, update, data, full_response, replies,
          pending, outcome, chunks, logMark, nevents,
          concurrent_updates, response, log_torn, io_faults>>

\* the state after the module is loaded (lines 40-46)
Fresh ==
    /\ chat_sessions = [c \in Chats |-> Absent]
    /\ chat_logs = <<>>
    /\ pc = [c \in Chats |-> "idle"]
    /\ update = [c \in Chats |-> NoUpdate]
    /\ data = [c \in Chats |-> NoData]
    /\ full_response = [c \in Chats |-> <<>>]
    /\ replies = [c \in Chats |-> <<>>]
    /\ pending = [c \in Chats |-> <<>>]
    /\ outcome = [c \in Chats |-> "none"]
    /\ chunks = [c \in Chats |-> <<>>]
    /\ logMark = [c \in Chats |-> 0]
    /\ nevents = 0
    /\ response = [c \in Chats |-> NoResponse]
    /\ log_torn = FALSE

\* Application.builder().token(...).build(): updates are handled one at a time
Init ==
    /\ Fresh
    /\ concurrent_updates = FALSE
    /\ io_faults = FALSE

\* ---------------------------------------------------------------- steps
\* chat_logs.json as log_chat finds it, and as it leaves it
LogFile == [logs |-> chat_logs, torn |-> log_torn]
Store(file) ==
    /\ chat_logs' = file.logs
    /\ log_torn' = file.torn

\* what the file operations of one log_chat call may do
IoResults == IF io_faults THEN {"ok", "read_error", "write_error"} ELSE {"ok"}

\* one more input of the environment, while the budget of the run lasts
Event ==
    /\ nevents < (IF concurrent_updates THEN MaxOverlapEvents ELSE MaxEvents)
    /\ nevents' = nevents + 1

\* a handler starts on a chat whose previous handler has finished
CanStart(c) ==
    /\ pc[c] = "idle"
    /\ concurrent_updates \/ \A d \in Chats : pc[d] = "idle"

\* the per-update bookkeeping of a new handler
Begin(c, upd) ==
    /\ update' = [update EXCEPT ![c] = upd]
    /\ logMark' = [logMark EXCEPT ![c] = Len(chat_logs)]
    /\ Event
    /\ UNCHANGED <<chunks, full_response, concurrent_updates, response, io_faults>>

\* a reply in the chunk loop whose error branches lack the `return`
ReplyThenLogNoReturn(c, text, logs, branch) ==
    /\ replies' = [replies EXCEPT ![c] = Append(@, text)]
    /\ pending' = [pending EXCEPT ![c] = logs]
    /\ outcome' = [outcome EXCEPT ![c] = branch]
    /\ pc' = [pc EXCEPT ![c] =
                IF branch \in {"api_error", "parse_error", "unexpected_format"}
                THEN pc[c] ELSE "replying"]

\* `await update.message.reply_text(text)` followed by the log_chat calls
\* `logs` (a sequence of <<message_type, content>>) and a return
ReplyThenLog(c, text, logs, branch) ==
    /\ replies' = [replies EXCEPT ![c] = Append(@, text)]
    /\ pending' = [pending EXCEPT ![c] = logs]
    /\ outcome' = [outcome EXCEPT ![c] = branch]
    /\ pc' = [pc EXCEPT ![c] = "replying"]

\* a text handler that builds the request without logging the message
handle_text_message_unlogged(c, user_message, io) ==
    /\ CanStart(c)
    /\ Begin(c, [kind |-> "text", text |-> user_message, voice |-> None])
    /\ UNCHANGED <<chat_logs, log_torn>>
    /\ LET session_id == SessionGet(chat_sessions, c)
       IN  data' = [data EXCEPT ![c] = WithSession(TextData(user_message), session_id)]
    /\ pc' = [pc EXCEPT ![c] = "requested"]
    /\ UNCHANGED <<chat_sessions, replies, pending, outcome>>

\* handle_text_message up to the await of the request
handle_text_message(c, user_message, io) ==
    /\ CanStart(c)
    /\ Begin(c, [kind |-> "text", text |-> user_message, voice |-> None])
    /\ Store(LogChat(LogFile, c, "text", user_message, "incoming", io))
    /\ LET session_id == SessionGet(chat_sessions, c)
       IN  data' = [data EXCEPT ![c] = WithSession(TextData(user_message), session_id)]
    /\ pc' = [pc EXCEPT ![c] = "requested"]
    /\ UNCHANGED <<chat_sessions, replies, pending, outcome>>

\* handle_voice_message up to its first await (reply_text or get_file)
handle_voice_message(c, voice, io) ==
    /\ CanStart(c)
    /\ Begin(c, [kind |-> "voice", text |-> <<>>, voice |-> voice])
    /\ data' = [data EXCEPT ![c] = NoData]
    /\ IF voice = None
       THEN /\ ReplyThenLog(c, NoVoiceMsg, <<>>, "no_voice")
            /\ UNCHANGED <<chat_logs, log_torn, log_torn>>
       ELSE /\ Store(LogChat(LogFile, c, "voice", VoiceLogContent(voice), "incoming", io))
            /\ pc' = [pc EXCEPT ![c] = "download"]
            /\ UNCHANGED <<replies, pending, outcome>>
    /\ UNCHANGED chat_sessions

\* handle_voice_message: get_file, download_to_drive, getsize or open raises
\* (lines 176-180)
DownloadFail(c, e) ==
    /\ pc[c] = "download"
    /\ Event
    /\ ReplyThenLog(c, VoiceErrorMsg(e),
                    <<[message_type |-> "text", content |-> VoiceErrorMsg(e)]>>, "voice_error")
    /\ UNCHANGED <<chat_sessions, chat_logs, log_torn, update, data, full_response, chunks,
                   logMark, concurrent_updates, response, io_faults>>

\* a download step that builds the form data before it checks the size
DownloadBuildFirst(c, ogg_size) ==
    /\ pc[c] = "download"
    /\ LET session_id == SessionGet(chat_sessions, c)
       IN  data' = [data EXCEPT ![c] = WithSession(VoiceData, session_id)]
    /\ IF ogg_size = 0
       THEN /\ Event
            /\ ReplyThenLog(c, EmptyAudioMsg, <<>>, "empty_voice")
       ELSE /\ pc' = [pc EXCEPT ![c] = "requested"]
            /\ UNCHANGED <<replies, pending, outcome, nevents>>
    /\ UNCHANGED <<chat_sessions, chat_logs, log_torn, update, full_response, chunks, logMark,
                   concurrent_updates, response, io_faults>>

\* handle_voice_message from the download to the await of the request
\* (lines 134-174)
Download(c, ogg_size) ==
    /\ pc[c] = "download"
    /\ IF ogg_size = 0
       THEN /\ Event
            /\ ReplyThenLog(c, EmptyAudioMsg, <<>>, "empty_voice")
            /\ UNCHANGED data
       ELSE /\ LET session_id == SessionGet(chat_sessions, c)
               IN  data' = [data EXCEPT ![c] = WithSession(VoiceData, session_id)]
            /\ pc' = [pc EXCEPT ![c] = "requested"]
            /\ UNCHANGED <<replies, pending, outcome, nevents>>
    /\ UNCHANGED <<chat_sessions, chat_logs, log_torn, update, full_response, chunks, logMark,
                   concurrent_updates, response, io_faults>>

TextLog(content) == <<[message_type |-> "text", content |-> content]>>

\* the log_chat calls of a delivery that records a transcription for any message
DeliveredLogsAnyType(d, cleaned_response) ==
    TextLog(cleaned_response)
        \o <<[message_type |-> "voice_transcription", content |-> cleaned_response]>>

\* the log_chat calls after a delivered reply (lines 229-232, 278-281)
DeliveredLogs(d, cleaned_response) ==
    IF d.type = "voice"
    THEN TextLog(cleaned_response)
            \o <<[message_type |-> "voice_transcription", content |-> cleaned_response]>>
    ELSE TextLog(cleaned_response)

\* an ending that tests whether a data key was seen, not the accumulator
FinishAnyData(c) ==
    IF \E i \in 1..Len(chunks[c]) : "data" \in chunks[c][i].keys
    THEN LET cleaned_response == RemoveAsterisks(full_response[c])
         IN  ReplyThenLog(c, cleaned_response, DeliveredLogs(data[c], cleaned_response),
                          "delivered")
    ELSE ReplyThenLog(c, NoResponseMsg, TextLog(NoResponseMsg), "empty")

\* lines 223-237 and 272-286: what is replied once the stream is over
Finish(c) ==
    IF full_response[c] # <<>>
    THEN LET cleaned_response == RemoveAsterisks(full_response[c])
         IN  ReplyThenLog(c, cleaned_response, DeliveredLogs(data[c], cleaned_response),
                          "delivered")
    ELSE ReplyThenLog(c, NoResponseMsg, TextLog(NoResponseMsg), "empty")

\* an except clause that logs the failure without telling the user
ExceptSilent(c, e) ==
    /\ pending' = [pending EXCEPT ![c] = TextLog(CommErrorMsg(e))]
    /\ outcome' = [outcome EXCEPT ![c] = "comm_error"]
    /\ pc' = [pc EXCEPT ![c] = "replying"]
    /\ UNCHANGED replies

\* except clauses that deliver what was accumulated when the read times out
ExceptDeliversPartial(c, e) ==
    IF e = "ReadTimeout"
    THEN IF full_response[c] # <<>>
         THEN ReplyThenLog(c, RemoveAsterisks(full_response[c]),
                           DeliveredLogs(data[c], RemoveAsterisks(full_response[c])),
                           "delivered")
         ELSE ReplyThenLog(c, TimeoutMsg, TextLog(TimeoutMsg), "timeout")
    ELSE ReplyThenLog(c, CommErrorMsg(e), TextLog(CommErrorMsg(e)), "comm_error")

\* the outer except clauses of send_to_yarabot (lines 311-320)
Except(c, e) ==
    IF e = "ReadTimeout"
    THEN ReplyThenLog(c, TimeoutMsg, TextLog(TimeoutMsg), "timeout")
    ELSE ReplyThenLog(c, CommErrorMsg(e), TextLog(CommErrorMsg(e)), "comm_error")

\* send_to_yarabot: the request is sent and the status line arrives
Respond(c, status_code, body) ==
    /\ pc[c] = "requested"
    /\ response' = [response EXCEPT ![c] =
                        [status_code |-> status_code,
                         body |-> IF status_code = "200" THEN <<>> ELSE body,
                         raised |-> "none"]]
    /\ IF status_code = "200"
       THEN /\ full_response' = [full_response EXCEPT ![c] = <<>>]
            /\ pc' = [pc EXCEPT ![c] = "streaming"]
            /\ UNCHANGED <<replies, pending, outcome, nevents>>
       ELSE /\ Event
            /\ LET error_message == HttpErrorMsg(status_code, body)
               IN  ReplyThenLog(c, error_message, TextLog(error_message), "http_error")
            /\ UNCHANGED full_response
    /\ UNCHANGED <<chat_sessions, chat_logs, log_torn, update, data, chunks, logMark,
                   concurrent_updates, io_faults>>

\* send_to_yarabot: the request or the read of the stream raises
NetworkFail(c, e) ==
    /\ pc[c] \in {"requested", "streaming"}
    /\ Event
    /\ response' = [response EXCEPT ![c].raised = e]
    /\ Except(c, e)
    /\ UNCHANGED <<chat_sessions, chat_logs, log_torn, update, data, full_response, chunks,
                   logMark, concurrent_updates, io_faults>>

\* one iteration of `async for chunk in stream.aiter_text()` (lines 207-269)
RecvChunk(c, chunk) ==
    /\ pc[c] = "streaming"
    /\ Event
    /\ chunks' = [chunks EXCEPT ![c] = Append(@, chunk)]
    /\ LET branch == Dispatch(chunk)
       IN  CASE branch = "skip" ->
                    UNCHANGED <<chat_sessions, full_response, replies, pending, outcome, pc>>
             [] branch = "session_id" ->
                    /\ chat_sessions' = SessionSet(chat_sessions, c, chunk.val)
                    /\ UNCHANGED <<full_response, replies, pending, outcome, pc>>
             [] branch = "data" ->
                    IF chunk.isstr
                    THEN /\ full_response' = [full_response EXCEPT ![c] = @ \o chunk.val]
                         /\ UNCHANGED <<chat_sessions, replies, pending, outcome, pc>>
                    ELSE /\ ReplyThenLog(c, ChunkErrorMsg(TypeErrorText),
                                         TextLog(ChunkErrorMsg(TypeErrorText)), "chunk_error")
                         /\ UNCHANGED <<chat_sessions, full_response>>
             [] branch = "message_id" ->
                    /\ Finish(c)
                    /\ UNCHANGED <<chat_sessions, full_response>>
             [] branch = "error" ->
                    /\ ReplyThenLog(c, ApiErrorMsg(chunk.val), TextLog(ApiErrorMsg(chunk.val)),
                                    "api_error")
                    /\ UNCHANGED <<chat_sessions, full_response>>
             [] branch = "decode_error" ->
                    /\ ReplyThenLog(c, ParseErrorMsg, TextLog(ParseErrorMsg), "parse_error")
                    /\ UNCHANGED <<chat_sessions, full_response>>
             [] OTHER ->
                    /\ ReplyThenLog(c, UnexpectedFormatMsg, TextLog(UnexpectedFormatMsg),
                                    "unexpected_format")
                    /\ UNCHANGED <<chat_sessions, full_response>>
    /\ UNCHANGED <<chat_logs, log_torn, update, data, logMark, concurrent_updates, response,
                   io_faults>>

\* the stream ends without a terminal chunk (lines 271-286)
StreamEnd(c) ==
    /\ pc[c] = "streaming"
    /\ Finish(c)
    /\ UNCHANGED <<chat_sessions, chat_logs, log_torn, update, data, full_response, chunks,
                   logMark, nevents, concurrent_updates, response, io_faults>>

\* the log_chat calls `calls` of one handler, one after the other
RECURSIVE LogAll(_, _, _, _)
LogAll(file, c, calls, ios) ==
    IF calls = <<>> THEN file
    ELSE LogAll(LogChat(file, c, Head(calls).message_type, Head(calls).content, "outgoing",
                        Head(ios)),
                c, Tail(calls), Tail(ios))

\* a reply after which the handler ends without its log_chat calls
ReplyReturnUnlogged(c, ios) ==
    /\ pc[c] = "replying"
    /\ UNCHANGED <<chat_logs, log_torn>>
    /\ pending' = [pending EXCEPT ![c] = <<>>]
    /\ pc' = [pc EXCEPT ![c] = "done"]
    /\ UNCHANGED <<chat_sessions, update, data, full_response, replies, outcome, chunks,
                   logMark, nevents, concurrent_updates, response, io_faults>>

\* reply_text returns: the log_chat calls that follow it run, the handler ends
ReplyReturn(c, ios) ==
    /\ pc[c] = "replying"
    /\ Store(LogAll(LogFile, c, pending[c], ios))
    /\ pending' = [pending EXCEPT ![c] = <<>>]
    /\ pc' = [pc EXCEPT ![c] = "done"]
    /\ UNCHANGED <<chat_sessions, update, data, full_response, replies, outcome, chunks,
                   logMark, nevents, concurrent_updates, response, io_faults>>

\* the handler returns to the Application; its frame is gone
HandlerReturn(c) ==
    /\ pc[c] = "done"
    /\ pc' = [pc EXCEPT ![c] = "idle"]
    /\ update' = [update EXCEPT ![c] = NoUpdate]
    /\ data' = [data EXCEPT ![c] = NoData]
    /\ full_response' = [full_response EXCEPT ![c] = <<>>]
    /\ replies' = [replies EXCEPT ![c] = <<>>]
    /\ outcome' = [outcome EXCEPT ![c] = "none"]
    /\ chunks' = [chunks EXCEPT ![c] = <<>>]
    /\ logMark' = [logMark EXCEPT ![c] = 0]
    /\ response' = [response EXCEPT ![c] = NoResponse]
    /\ UNCHANGED <<chat_sessions, chat_logs, log_torn, pending, nevents, concurrent_updates,
                   io_faults>>

Next ==
    \/ \E c \in Chats, user_message \in UserTexts, io \in IoResults :
            handle_text_message(c, user_message, io)
    \/ \E c \in Chats, voice \in FileIds \cup {None}, io \in IoResults :
            handle_voice_message(c, voice, io)
    \/ \E c \in Chats, e \in RawExc : DownloadFail(c, e)
    \/ \E c \in Chats, ogg_size \in OggSizes : Download(c, ogg_size)
    \/ \E c \in Chats, status_code \in Statuses, body \in Bodies : Respond(c, status_code, body)
    \/ \E c \in Chats, e \in RawExc \cup {"ReadTimeout"} : NetworkFail(c, e)
    \/ \E c \in Chats, chunk \in Chunks : RecvChunk(c, chunk)
    \/ \E c \in Chats : StreamEnd(c)
    \/ \E c \in Chats, ios \in [1..2 -> IoResults] : ReplyReturn(c, ios)
    \/ \E c \in Chats : HandlerReturn(c)

Spec == Init /\ [][Next]_vars

\* the same program with handlers of different chats overlapping
InitConcurrent ==
    /\ Fresh
    /\ concurrent_updates = TRUE
    /\ io_faults = FALSE

SpecConcurrent == InitConcurrent /\ [][Next]_vars

\* the same program on a disk whose file operations may fail
InitIoFaults ==
    /\ Fresh
    /\ concurrent_updates = FALSE
    /\ io_faults = TRUE

SpecIoFaults == InitIoFaults /\ [][Next]_vars

\* ---------------------------------------------------------------- observations
\* the handler of chat c took the update in (it passed the checks before
\* the first log_chat)
Accepted(c) ==
    \/ update[c].kind = "text"
    \/ update[c].kind = "voice" /\ update[c].voice # None

Finished(c) == pc[c] = "done"
Replied(c) == pc[c] \in {"replying", "done"}

\* the audit entries of chat c written since its current update arrived
MsgEntries(c) ==
    SelectSeq(SubSeq(chat_logs, logMark[c] + 1, Len(chat_logs)), LAMBDA en : en.chat_id = c)
Incoming(c) == SelectSeq(MsgEntries(c), LAMBDA en : en.direction = "incoming")
Outgoing(c) == SelectSeq(MsgEntries(c), LAMBDA en : en.direction = "outgoing")

Last(s) == s[Len(s)]
Front(s) == SubSeq(s, 1, Len(s) - 1)

\* the shapes of a chunk, read off its keys
IsObject(ch) == ch.kind = "obj"
IsSessionChunk(ch) == IsObject(ch) /\ "session_id" \in ch.keys
IsDataChunk(ch) == IsObject(ch) /\ "data" \in ch.keys /\ "session_id" \notin ch.keys
IsMessageIdChunk(ch) ==
    IsObject(ch) /\ "message_id" \in ch.keys /\ ch.keys \cap {"session_id", "data"} = {}
IsErrorChunk(ch) ==
    IsObject(ch) /\ "error" \in ch.keys
        /\ ch.keys \cap {"session_id", "data", "message_id"} = {}
IsMalformedChunk(ch) ==
    \/ ch.kind \in {"notjson", "nonobj"}
    \/ IsObject(ch) /\ ch.keys \cap Keys = {}

\* the data values of a chunk sequence, concatenated in arrival order
RECURSIVE DataText(_)
DataText(cs) ==
    IF cs = <<>> THEN <<>>
    ELSE IF IsDataChunk(Head(cs)) THEN Head(cs).val \o DataText(Tail(cs))
         ELSE DataText(Tail(cs))

WithoutAsterisks(text) == SelectSeq(text, LAMBDA ch : ch # "*")

\* the value of the last session_id chunk of a chunk sequence
RECURSIVE LastSessionValue(_)
LastSessionValue(cs) ==
    IF IsSessionChunk(Last(cs)) THEN Last(cs).val ELSE LastSessionValue(Front(cs))

OutgoingIs(c, texts) ==
    /\ Len(Outgoing(c)) = Len(texts)
    /\ \A i \in 1..Len(texts) : Outgoing(c)[i].content = texts[i]

\* ---------------------------------------------------------------- claims
\* C1: every accepted user message, on every path its handler can take, ends
\* with exactly one incoming audit entry and at least one outgoing audit
\* entry for its chat, the incoming one first.
C1_OneIncomingThenOutgoing ==
    \A c \in Chats :
        Finished(c) /\ Accepted(c) =>
            /\ Len(Incoming(c)) = 1
            /\ Len(Outgoing(c)) >= 1
            /\ MsgEntries(c)[1].direction = "incoming"

\* C2: for every accepted user message exactly one reply is handed to the
\* front-end over the whole handling: none before the handler reaches its
\* reply, one from then on, never two.
C2_ExactlyOneReply ==
    \A c \in Chats :
        Accepted(c) =>
            Len(replies[c]) = IF Replied(c) THEN 1 ELSE 0

C2_Witness ==
    \E c \in Chats :
        /\ Finished(c) /\ Accepted(c)
        /\ update[c].kind = "voice"
        /\ outcome[c] = "delivered"
        /\ Len(chunks[c]) >= 2

\* C3: when the stream loop reaches a message_id chunk, the reply is the
\* concatenation, in arrival order, of the data values taken before it with
\* every '*' removed, or the fixed no-response message when nothing was
\* accumulated.
C3_MessageIdDelivers ==
    \A c \in Chats :
        chunks[c] # <<>> /\ IsMessageIdChunk(Last(chunks[c])) =>
            LET text == DataText(Front(chunks[c]))
            IN  /\ Replied(c)
                /\ replies[c] = <<IF text # <<>> THEN WithoutAsterisks(text) ELSE NoResponseMsg>>
                /\ outcome[c] = IF text # <<>> THEN "delivered" ELSE "empty"

C3_Witness ==
    \E c \in Chats :
        /\ Finished(c)
        /\ Len(chunks[c]) = 3
        /\ IsMessageIdChunk(Last(chunks[c]))
        /\ full_response[c] = <<"a", "*", "b">>
        /\ replies[c] = <<(<<"a", "b">>)>>

\* the stream of chat c ended without a terminal chunk and the handler replied
EndedWithoutTerminal(c) ==
    /\ Replied(c)
    /\ outcome[c] \in {"delivered", "empty"}
    /\ chunks[c] = <<>> \/ ~IsMessageIdChunk(Last(chunks[c]))

\* C4 as stated: at the end of a stream without a terminal chunk, the reply
\* is the accumulated text without '*' as soon as one data chunk was taken,
\* and the fixed no-response message when none was.
C4_AnyDataChunkDelivers ==
    \A c \in Chats :
        EndedWithoutTerminal(c) =>
            IF \E i \in 1..Len(chunks[c]) : IsDataChunk(chunks[c][i])
            THEN /\ outcome[c] = "delivered"
                 /\ replies[c] = <<WithoutAsterisks(DataText(chunks[c]))>>
            ELSE /\ outcome[c] = "empty"
                 /\ replies[c] = <<NoResponseMsg>>

\* C4 amended: at the end of a stream without a terminal chunk, the reply is
\* the accumulated text without '*' when the data values taken concatenate
\* to a non-empty text, and the fixed no-response message otherwise (no data
\* chunk, or only empty data values).
C4_NonEmptyDataDelivers ==
    \A c \in Chats :
        EndedWithoutTerminal(c) =>
            IF DataText(chunks[c]) # <<>>
            THEN /\ outcome[c] = "delivered"
                 /\ replies[c] = <<WithoutAsterisks(DataText(chunks[c]))>>
            ELSE /\ outcome[c] = "empty"
                 /\ replies[c] = <<NoResponseMsg>>

C4_Witness ==
    \E c \in Chats :
        /\ Finished(c) /\ EndedWithoutTerminal(c)
        /\ Len(chunks[c]) = 2
        /\ chunks[c][1].val = <<>> /\ IsDataChunk(chunks[c][1])
        /\ chunks[c][2].val = <<"*", "b">>
        /\ replies[c] = <<(<<"b">>)>>

\* C5: an error chunk the stream loop takes ends the loop and the reply is
\* the API error message carrying the chunk's error value; the text
\* accumulated before it is neither replied nor logged: the only reply and,
\* once logged, the only outgoing entry is that error message.
C5_ErrorChunkHalts ==
    \A c \in Chats :
        chunks[c] # <<>> /\ IsErrorChunk(Last(chunks[c])) =>
            LET message == <<"API Error: ">> \o Last(chunks[c]).val
            IN  /\ Replied(c)
                /\ replies[c] = <<message>>
                /\ Finished(c) => OutgoingIs(c, <<message>>)

C5_Witness ==
    \E c \in Chats :
        /\ Finished(c)
        /\ Len(chunks[c]) = 2
        /\ IsErrorChunk(Last(chunks[c]))
        /\ full_response[c] = <<"a">>
        /\ Last(chunks[c]).val = <<"e1">>

\* C6: a non-blank chunk that is no JSON, no JSON object, or an object with
\* none of the four keys ends the loop with one of the two fixed protocol
\* error messages as the only reply and the only outgoing entry, so the user
\* never gets the text accumulated so far.
C6_MalformedChunkHalts ==
    \A c \in Chats :
        chunks[c] # <<>> /\ IsMalformedChunk(Last(chunks[c])) =>
            LET message == IF Last(chunks[c]).kind = "notjson"
                           THEN <<"Error: Could not parse API response.">>
                           ELSE <<"Received unexpected response format from API.">>
            IN  /\ Replied(c)
                /\ replies[c] = <<message>>
                /\ Finished(c) => OutgoingIs(c, <<message>>)

C6_Witness ==
    \E c \in Chats :
        /\ Finished(c)
        /\ Len(chunks[c]) = 2
        /\ Last(chunks[c]).kind = "notjson"
        /\ full_response[c] = <<"a">>

\* C7: while and after a stream is decoded the session table maps the chat
\* to the value of the last session_id chunk taken from that stream, and it
\* already does when the reply is handed over and when the outcome is logged.
C7_LastSessionIdWins ==
    \A c \in Chats :
        /\ pc[c] \in {"streaming", "replying", "done"}
        /\ \E i \in 1..Len(chunks[c]) : IsSessionChunk(chunks[c][i])
        => chat_sessions[c] = LastSessionValue(chunks[c])

C7_Witness ==
    \E c \in Chats :
        /\ pc[c] = "replying"
        /\ Len(chunks[c]) = 3
        /\ IsSessionChunk(chunks[c][1]) /\ chunks[c][1].val = <<"s1">>
        /\ IsSessionChunk(chunks[c][2]) /\ chunks[c][2].val = <<"s2">>
        /\ IsMessageIdChunk(chunks[c][3])
        /\ chat_sessions[c] = <<"s2">>

\* C8: a request just built for a chat carries a session_id field equal to
\* the table's token as soon as any token was ever set for the chat, and no
\* session_id field only if none was.
C8_RequestCarriesToken ==
    \A c \in Chats :
        pc[c] = "requested" =>
            IF chat_sessions[c] # Absent
            THEN /\ "session_id" \in DOMAIN data[c]
                 /\ data[c].session_id = chat_sessions[c]
            ELSE "session_id" \notin DOMAIN data[c]

\* C9: a voice update whose download is 0 bytes builds no request, gets the
\* fixed empty-audio message as its only reply, and no step of its handling
\* writes the session table.
C9_EmptyVoiceState ==
    \A c \in Chats :
        outcome[c] = "empty_voice" =>
            /\ data[c] = NoData
            /\ chunks[c] = <<>>
            /\ replies[c] = <<(<<"Error: Downloaded audio file is empty.">>)>>

C9_EmptyVoiceStep ==
    \A c \in Chats :
        pc'[c] = "download" \/ outcome'[c] = "empty_voice" =>
            chat_sessions'[c] = chat_sessions[c]

C9_EmptyVoiceNoRequest == []C9_EmptyVoiceState /\ [][C9_EmptyVoiceStep]_vars

C9_Witness ==
    \E c \in Chats :
        /\ Finished(c)
        /\ outcome[c] = "empty_voice"
        /\ chat_sessions[c] = <<"s1">>

\* the branches that end a handling with an error message
ErrorOutcomes ==
    {"empty_voice", "voice_error", "comm_error", "timeout", "parse_error",
     "unexpected_format", "chunk_error", "api_error", "http_error"}

\* C10: on every error path the user gets an error message and the same
\* text is recorded as an outgoing audit entry of the chat.
C10_ErrorReplyIsLogged ==
    \A c \in Chats :
        Finished(c) /\ outcome[c] \in ErrorOutcomes =>
            /\ Len(replies[c]) = 1
            /\ \E i \in 1..Len(Outgoing(c)) : Outgoing(c)[i].content = replies[c][1]

\* the text the status table gives a status code and a response body
StatusMappedText(status_code, body) ==
    LET detail == IF body = <<>> THEN <<"No error body received">> ELSE body
    IN  <<"Error: ", status_code>> \o
        (IF status_code = "400" THEN <<" - Bad Request: ">> \o detail
         ELSE IF status_code = "401" THEN <<" - Unauthorized: Invalid API key.">>
         ELSE IF status_code = "404" THEN <<" - Not Found: Agent ID not found.">>
         ELSE IF status_code = "413" THEN <<" - Payload Too Large.">>
         ELSE IF status_code = "422" THEN <<" - Unprocessable Entity: Invalid data format.">>
         ELSE <<" - ">> \o detail)

\* the status codes of Statuses that are 2xx
SuccessStatuses == {"200", "201"}

\* a response whose status is not in `decoded` ends in the status-mapped error
\* without a chunk taken; a response whose status is in `decoded` is streamed
StatusOutcome(decoded) ==
    \A c \in Chats :
        LET r == response[c]
        IN  /\ r.status_code \notin decoded \cup {"none"} =>
                /\ Replied(c)
                /\ chunks[c] = <<>>
                /\ outcome[c] = "http_error"
                /\ replies[c] = <<StatusMappedText(r.status_code, r.body)>>
                /\ Finished(c) => OutgoingIs(c, <<StatusMappedText(r.status_code, r.body)>>)
            /\ r.status_code \in decoded => outcome[c] # "http_error"

\* the Session Table entry of a chat is not written while its response has a
\* status outside `decoded`
StatusKeepsSession(decoded) ==
    \A c \in Chats :
        response'[c].status_code \notin decoded \cup {"none"} =>
            chat_sessions'[c] = chat_sessions[c]

IsPrefix(s, t) == Len(s) <= Len(t) /\ SubSeq(t, 1, Len(s)) = s

\* C12: the audit log is append-only across any sequence of log_chat calls,
\* the calls that fail part-way included: after every call the entries that
\* were persisted before it are still there, unmodified and in the same
\* order, that is the old log is a prefix of the new log.
C12_OldLogIsPrefix == [][IsPrefix(chat_logs, chat_logs')]_vars

\* the entry the handler of chat c appends when its update arrives
ExpectedIncoming(c) ==
    IF update[c].kind = "text"
    THEN <<LogEntry(c, "text", update[c].text, "incoming")>>
    ELSE IF update[c].kind = "voice" /\ update[c].voice # None
    THEN <<LogEntry(c, "voice", <<"Voice message with file_id: ">> \o update[c].voice,
                    "incoming")>>
    ELSE <<>>

\* the entries the handler of chat c appends after its reply
ExpectedOutgoing(c) ==
    IF outcome[c] \in {"no_voice", "empty_voice"} THEN <<>>
    ELSE <<LogEntry(c, "text", replies[c][1], "outgoing")>> \o
         (IF update[c].kind = "voice" /\ outcome[c] = "delivered"
          THEN <<LogEntry(c, "voice_transcription", replies[c][1], "outgoing")>>
          ELSE <<>>)

C13_AllAppendsPresent ==
    /\ ~log_torn
    /\ \A c \in Chats :
        /\ pc[c] \notin {"idle", "done"} => MsgEntries(c) = ExpectedIncoming(c)
        /\ Finished(c) => MsgEntries(c) = ExpectedIncoming(c) \o ExpectedOutgoing(c)

\* C13: when the handlers of different chats overlap and interleave at their
\* awaits, every log_chat append that completes is in the audit log
\* afterwards: no step removes or changes an entry already in the log, each
\* handler finds all of its own entries, in order, whatever the other chat
\* appended in between, and the file never holds a partial entry.
C13_ConcurrentAppendsKept ==
    []C13_AllAppendsPresent /\ [][IsPrefix(chat_logs, chat_logs')]_vars

C13_Witness ==
    /\ \A c \in Chats : Finished(c) /\ Len(Outgoing(c)) >= 1
    /\ Len(chat_logs) >= 4
    /\ chat_logs[1].chat_id # chat_logs[2].chat_id
    /\ chat_logs[2].chat_id # chat_logs[3].chat_id
    /\ logMark[1] < 2 /\ logMark[2] < 2

\* the chunks on which the loop returns: message_id, error, a parse
\* failure, a non-object, an object with none of the four keys
IsTerminalChunk(ch) == IsMessageIdChunk(ch) \/ IsErrorChunk(ch) \/ IsMalformedChunk(ch)

\* a terminal chunk is the last chunk taken, and the reply has been made
C14_TerminalIsLast ==
    \A c \in Chats :
        \A i \in 1..Len(chunks[c]) :
            IsTerminalChunk(chunks[c][i]) =>
                /\ i = Len(chunks[c])
                /\ Replied(c)
                /\ Len(replies[c]) = 1

\* once a terminal chunk was taken, the rest of the handling takes no chunk
\* and leaves outcome, Session Table entry and replies as they are
C14_NothingAfterTerminal ==
    \A c \in Chats :
        (chunks[c] # <<>> /\ IsTerminalChunk(Last(chunks[c])) /\ pc'[c] # "idle") =>
            /\ chunks'[c] = chunks[c]
            /\ outcome'[c] = outcome[c]
            /\ chat_sessions'[c] = chat_sessions[c]
            /\ replies'[c] = replies[c]
            /\ pc'[c] = "done"

\* C14: decoding halts on the first terminal condition (message_id chunk,
\* error chunk, parse failure, non-object chunk, object with no recognized
\* key): no chunk after it is taken, so nothing after it changes the outcome,
\* writes the Session Table or adds replies, and the audit entries of the
\* message are those of the terminal condition.
C14_HaltsOnFirstTerminal ==
    /\ []C14_TerminalIsLast
    /\ [][C14_NothingAfterTerminal]_vars
    /\ [](\A c \in Chats :
            Finished(c) /\ chunks[c] # <<>> /\ IsTerminalChunk(Last(chunks[c])) =>
                MsgEntries(c) = ExpectedIncoming(c) \o ExpectedOutgoing(c))

C14_Witness ==
    \E c \in Chats :
        /\ Finished(c)
        /\ Len(chunks[c]) = 3
        /\ IsSessionChunk(chunks[c][1])
        /\ IsDataChunk(chunks[c][2])
        /\ IsMalformedChunk(chunks[c][3])

\* the request of chat c is built, under way or answered
RequestBuilt(c) ==
    \/ data[c] # NoData
    \/ pc[c] \in {"requested", "streaming"}
    \/ response[c] # NoResponse

\* C15: the incoming audit entry of a user message is appended before the
\* request to the backend is built or sent: whenever the request exists the
\* entry is the first entry of the message, and it is still the only incoming
\* entry when the network call has failed, timed out or returned an error.
C15_IncomingBeforeRequest ==
    \A c \in Chats :
        /\ RequestBuilt(c) =>
            /\ MsgEntries(c) # <<>>
            /\ Head(MsgEntries(c)) = Head(ExpectedIncoming(c))
            /\ Len(Incoming(c)) = 1
        /\ outcome[c] \in {"comm_error", "timeout", "http_error", "api_error"} =>
            Incoming(c) = ExpectedIncoming(c) /\ ExpectedIncoming(c) # <<>>

C15_Witness ==
    \E c \in Chats :
        /\ Finished(c)
        /\ update[c].kind = "voice"
        /\ data[c] # NoData
        /\ response[c].raised = "ConnectError"
        /\ Len(Incoming(c)) = 1

\* the endings of send_to_yarabot and of the voice handler's except clause:
\* the paths that append an outgoing entry
LoggedOutcomes ==
    {"delivered", "empty", "api_error", "parse_error", "unexpected_format",
     "chunk_error", "http_error", "timeout", "comm_error", "voice_error"}

TextThenTranscription(c) ==
    /\ Len(Outgoing(c)) = 2
    /\ Outgoing(c)[1].message_type = "text"
    /\ Outgoing(c)[2].message_type = "voice_transcription"
    /\ Outgoing(c)[1].content = Outgoing(c)[2].content

\* C17: a message produces exactly two outgoing audit entries (a text entry
\* followed by a voice_transcription entry with identical content) if and
\* only if its kind is voice and its outcome is Delivered; in every other
\* case that logs an outcome exactly one outgoing entry, of kind text, is
\* appended.
C17_TwoEntriesIffVoiceDelivered ==
    \A c \in Chats :
        Finished(c) =>
            /\ TextThenTranscription(c) <=>
                    (update[c].kind = "voice" /\ outcome[c] = "delivered")
            /\ Len(Outgoing(c)) = 2 => TextThenTranscription(c)
            /\ Len(Outgoing(c)) <= 2
            /\ (outcome[c] \in LoggedOutcomes
                    /\ ~(update[c].kind = "voice" /\ outcome[c] = "delivered")) =>
                /\ Len(Outgoing(c)) = 1
                /\ Outgoing(c)[1].message_type = "text"

C17_Witness ==
    \E c \in Chats :
        /\ Finished(c)
        /\ update[c].kind = "voice"
        /\ outcome[c] = "delivered"
        /\ TextThenTranscription(c)
        /\ Outgoing(c)[2].content = <<"a">>

\* a voice message that was not delivered has one outgoing entry
C17_WitnessVoiceError ==
    \E c \in Chats :
        /\ Finished(c)
        /\ update[c].kind = "voice"
        /\ outcome[c] = "api_error"
        /\ Len(Outgoing(c)) = 1

\* C18: if the read times out while the stream is consumed, after any number
\* of data chunks, the decode is abandoned: the outcome is the fixed timeout
\* error, and what was accumulated is neither replied to the user nor
\* written to the audit log.
C18_TimeoutDiscardsPartial ==
    \A c \in Chats :
        response[c].raised = "ReadTimeout" =>
            /\ Replied(c)
            /\ outcome[c] = "timeout"
            /\ replies[c] = <<(<<"Error: API response timed out. Please try again later.">>)>>
            /\ Finished(c) =>
                /\ Len(Outgoing(c)) = 1
                /\ Outgoing(c)[1].message_type = "text"
                /\ Outgoing(c)[1].content =
                        <<"Error: API response timed out. Please try again later.">>

C18_Witness ==
    \E c \in Chats :
        /\ Finished(c)
        /\ response[c].status_code = "200"
        /\ response[c].raised = "ReadTimeout"
        /\ Len(chunks[c]) = 2
        /\ full_response[c] = <<"a", "a">>

\* the atoms of the texts replied and logged as outgoing for chat c's message
ShownAtoms(c) ==
    UNION {{replies[c][i][j] : j \in 1..Len(replies[c][i])} : i \in 1..Len(replies[c])}
    \cup
    UNION {{Outgoing(c)[i].content[j] : j \in 1..Len(Outgoing(c)[i].content)} :
                i \in 1..Len(Outgoing(c))}

\* the fixed messages of the paths a network exception or a failed build
\* of the request leads to
FixedErrorTexts ==
    {<<"Error: API response timed out. Please try again later.">>,
     <<"Error: Downloaded audio file is empty.">>,
     <<"Error: Could not process the voice message.">>}

\* C19: an exception from the network layer (timeout, connection failure)
\* or a failed build precondition is turned into a fixed message: the text
\* replied and logged on that path is one of a fixed set and never holds the
\* text of the exception.
C19_NoRawExceptionText ==
    \A c \in Chats :
        pc[c] # "idle"
            /\ outcome[c] \in {"timeout", "comm_error", "voice_error", "empty_voice", "no_voice"} =>
                /\ ShownAtoms(c) \cap (RawExc \cup {TypeErrorText}) = {}
                /\ \A i \in 1..Len(replies[c]) : replies[c][i] \in FixedErrorTexts

\* the effect of taking chunk ch in chat c, by the first of the keys
\* session_id, data, message_id, error that ch carries
FirstKeyOnly(c, ch) ==
    /\ "session_id" \in ch.keys =>
        /\ pc'[c] = "streaming"
        /\ chat_sessions'[c] = ch.val
        /\ full_response'[c] = full_response[c]
        /\ replies'[c] = replies[c]
        /\ outcome'[c] = outcome[c]
    /\ ("data" \in ch.keys /\ "session_id" \notin ch.keys /\ ch.isstr) =>
        /\ pc'[c] = "streaming"
        /\ full_response'[c] = full_response[c] \o ch.val
        /\ chat_sessions'[c] = chat_sessions[c]
        /\ replies'[c] = replies[c]
        /\ outcome'[c] = outcome[c]
    /\ ("message_id" \in ch.keys /\ ch.keys \cap {"session_id", "data"} = {}) =>
        /\ pc'[c] = "replying"
        /\ outcome'[c] \in {"delivered", "empty"}
        /\ chat_sessions'[c] = chat_sessions[c]
    /\ ch.keys = {"error"} =>
        /\ pc'[c] = "replying"
        /\ outcome'[c] = "api_error"
        /\ chat_sessions'[c] = chat_sessions[c]

C20_ChunkStep ==
    \A c \in Chats :
        Len(chunks'[c]) = Len(chunks[c]) + 1 /\ IsObject(Last(chunks'[c])) =>
            FirstKeyOnly(c, Last(chunks'[c]))

\* C20: chunk keys are dispatched in the priority session_id, data,
\* message_id, error and only the first match is applied: an object with
\* session_id and message_id (or data, or error) only writes the Session
\* Table and does not end the stream, an object with data and message_id or
\* error only appends to the accumulator and does not end the stream.
C20_FirstMatchingKeyOnly == [][C20_ChunkStep]_vars

C20_Witness ==
    \E c \in Chats :
        /\ pc[c] = "streaming"
        /\ Len(chunks[c]) = 3
        /\ chunks[c][1].keys = {"session_id", "message_id"}
        /\ chunks[c][2].keys = {"data", "error"}
        /\ chunks[c][3].keys = {"data", "message_id"}
        /\ chat_sessions[c] = <<"s2">>
        /\ full_response[c] = <<"a", "a">>

====
